---- MODULE Spec2Model ----
(***************************************************************************)
(* Wake-cycle state machine of the esp32c3 movement sensor (src/main.rs).  *)
(* One program execution ("cycle") runs from the entry point to a call of  *)
(* rtc.sleep_deep, which never returns; the next cycle starts at the entry *)
(* point again.  Three statics live in RTC fast memory and survive deep    *)
(* sleep: WAKEUP_LEVEL, SERVER_ADDR, TIMER_SLEEP.  They are declared       *)
(* #[ram(rtc_fast, uninitialized)], so at cold boot they hold whatever the *)
(* memory holds: Init draws them from every value of their type.           *)
(***************************************************************************)
EXTENDS Integers, Sequences, FiniteSets, TLC

VARIABLES
    WAKEUP_LEVEL,      \* static mut WAKEUP_LEVEL : "High" | "Low"        (retained)
    SERVER_ADDR,       \* static mut SERVER_ADDR  : [u8; 6]               (retained)
    TIMER_SLEEP,       \* static mut TIMER_SLEEP  : bool                  (retained)
    wake_reason,       \* let wake_reason = get_wakeup_cause()
    wakeup_pin_state,  \* let wakeup_pin_state = wakeup_pin.is_input_high()
    send_update,       \* let mut send_update
    rtcio,             \* level held by RtcioWakeupSource::new(wakeup_pins); "none" before it is built
    server_addr,       \* let server_addr = read_volatile!(SERVER_ADDR)  (local snapshot)
    response,          \* let response = esp_now.receive(): <<>> is None, <<d>> is Some(d)
    peers,             \* the PeerInfo given to esp_now.add_peer in this cycle
    pc,                \* position of the cycle in main
    radio_inits,       \* calls of esp_wifi::initialize in this cycle
    sent,              \* datagrams accepted by esp_now.send in this cycle, in order
    sleep_sources,     \* the wake-source slice handed to rtc.sleep_deep; <<>> before the call
    entry,             \* the retained statics as they were at the entry of this cycle
    noReplyRun,        \* consecutive discovery cycles so far whose receive() returned None
    probesRun,         \* Probe datagrams sent in those cycles
    prev               \* the cycle before this one: its wake cause, the statics at its
                       \* entry, whether it kept the radio off, and the sources it slept with

vars == <<WAKEUP_LEVEL, SERVER_ADDR, TIMER_SLEEP, wake_reason, wakeup_pin_state,
          send_update, rtcio, server_addr, response, peers, pc, radio_inits,
          sent, sleep_sources, entry, noReplyRun, probesRun, prev>>

retained == <<WAKEUP_LEVEL, SERVER_ADDR, TIMER_SLEEP>>

----------------------------------------------------------------------------
(* Bounds and program constants *)

\* cap of the two run counters noReplyRun / probesRun (they saturate here)
MaxRun == 3

\* Duration::from_secs(5) of the TimerWakeupSource
TIMER_SECS == 5

\* esp_wifi::esp_now::BROADCAST_ADDRESS: six 0xFF bytes
BROADCAST_ADDRESS == <<255, 255, 255, 255, 255, 255>>

\* Efuse::get_mac_address(): this node's own address
OwnMac == <<2, 0, 0, 0, 0, 9>>

\* addresses of other stations that may answer a probe
PeerAddrs == {<<2, 0, 0, 0, 0, 1>>, <<2, 0, 0, 0, 0, 2>>}

\* every value SERVER_ADDR may hold in uninitialised RTC memory (a sample)
AnyAddr == PeerAddrs \cup {BROADCAST_ADDRESS, OwnMac}

WakeupLevel == {"High", "Low"}

\* SleepSource as main matches on it: Undefined (power on / not a deep-sleep
\* wake), Timer, Gpio, and "Other" for every variant the `_` arm takes.
SleepSource == {"Undefined", "Timer", "Gpio", "Other"}

\* the payloads of the two datagrams
ProbeBytes == <<240, 0, 34>>
StatusBytes(pin) == <<34, IF pin THEN 1 ELSE 0>>

\* a received datagram's info: the sender is a station (never the broadcast
\* address); the destination is this node, the broadcast address or another station
ReceivedData == [src_address : PeerAddrs,
                 dst_address : {OwnMac, BROADCAST_ADDRESS} \cup PeerAddrs]

----------------------------------------------------------------------------
(* Pure parts of main *)

\* negate_wakeup_level! with both branches writing Low
negate_wakeup_level_stuck(level) ==
    IF level = "High" THEN "Low" ELSE "Low"

\* negate_wakeup_level!

negate_wakeup_level(level) ==
    IF level = "High" THEN "Low" ELSE "High"

\* match_wake_reason with the Low arm of the Gpio branch lost: a level wake at
\* Low flips the level but does not arm the timer
match_wake_reason_no_arm(level, timer, addr, cause) ==
    CASE cause = "Timer" ->
            IF level = "High"
            THEN [level |-> level, timer |-> FALSE, addr |-> addr, update |-> TRUE]
            ELSE [level |-> level, timer |-> timer, addr |-> addr, update |-> FALSE]
      [] cause = "Gpio" ->
            [level |-> IF level = "High" THEN "Low" ELSE "High",
             timer |-> IF level = "High" THEN FALSE ELSE timer,
             addr |-> addr,
             update |-> (level = "High" /\ timer = FALSE)]
      [] cause = "Undefined" ->
            [level |-> level, timer |-> timer, addr |-> BROADCAST_ADDRESS,
             update |-> FALSE]
      [] OTHER ->
            [level |-> level, timer |-> timer, addr |-> addr, update |-> FALSE]

\* match_wake_reason with the reset of SERVER_ADDR in the `_` arm as well
match_wake_reason_reset_any(level, timer, addr, cause) ==
    CASE cause = "Timer" ->
            IF level = "High"
            THEN [level |-> level, timer |-> FALSE, addr |-> addr, update |-> TRUE]
            ELSE [level |-> level, timer |-> timer, addr |-> addr, update |-> FALSE]
      [] cause = "Gpio" ->
            [level |-> IF level = "High" THEN "Low" ELSE "High",
             timer |-> IF level = "High" THEN FALSE ELSE TRUE,
             addr |-> addr,
             update |-> (level = "High" /\ timer = FALSE)]
      [] OTHER ->
            [level |-> level, timer |-> timer, addr |-> BROADCAST_ADDRESS,
             update |-> FALSE]

\* match_wake_reason with the Gpio branch testing only the level: a level
\* wake at (High, armed) reports instead of being cancelled silently
match_wake_reason_no_cancel(level, timer, addr, cause) ==
    CASE cause = "Timer" ->
            IF level = "High"
            THEN [level |-> level, timer |-> FALSE, addr |-> addr, update |-> TRUE]
            ELSE [level |-> level, timer |-> timer, addr |-> addr, update |-> FALSE]
      [] cause = "Gpio" ->
            [level |-> IF level = "High" THEN "Low" ELSE "High",
             timer |-> IF level = "High" THEN FALSE ELSE TRUE,
             addr |-> addr,
             update |-> (level = "High")]
      [] cause = "Undefined" ->
            [level |-> level, timer |-> timer, addr |-> BROADCAST_ADDRESS,
             update |-> FALSE]
      [] OTHER ->
            [level |-> level, timer |-> timer, addr |-> addr, update |-> FALSE]

\* match_wake_reason with the (High, armed) arm of the Gpio branch lost: the
\* level wake flips the level but leaves the timer armed
match_wake_reason_no_disarm(level, timer, addr, cause) ==
    CASE cause = "Timer" ->
            IF level = "High"
            THEN [level |-> level, timer |-> FALSE, addr |-> addr, update |-> TRUE]
            ELSE [level |-> level, timer |-> timer, addr |-> addr, update |-> FALSE]
      [] cause = "Gpio" ->
            [level |-> IF level = "High" THEN "Low" ELSE "High",
             timer |-> IF level = "Low" THEN TRUE ELSE timer,
             addr |-> addr,
             update |-> (level = "High" /\ timer = FALSE)]
      [] cause = "Undefined" ->
            [level |-> level, timer |-> timer, addr |-> BROADCAST_ADDRESS,
             update |-> FALSE]
      [] OTHER ->
            [level |-> level, timer |-> timer, addr |-> addr, update |-> FALSE]

\* the `match wake_reason` of main, on the values of the statics: the new
\* statics and send_update
match_wake_reason(level, timer, addr, cause) ==
    CASE cause = "Timer" ->
            IF level = "High"
            THEN [level |-> level, timer |-> FALSE, addr |-> addr, update |-> TRUE]
            ELSE [level |-> level, timer |-> timer, addr |-> addr, update |-> FALSE]
      [] cause = "Gpio" ->
            LET upd == level = "High" /\ timer = FALSE
                tmr == IF level = "High" /\ timer = FALSE THEN timer
                       ELSE IF level = "High" /\ timer = TRUE THEN FALSE
                       ELSE IF level = "Low" THEN TRUE
                       ELSE timer
            IN  [level |-> negate_wakeup_level(level), timer |-> tmr,
                 addr |-> addr, update |-> upd]
      [] cause = "Undefined" ->
            [level |-> level, timer |-> timer, addr |-> BROADCAST_ADDRESS,
             update |-> FALSE]
      [] OTHER ->
            [level |-> level, timer |-> timer, addr |-> addr, update |-> FALSE]

\* fast_path with the test of send_update inverted
fast_path_inverted(addr, update) ==
    addr /= BROADCAST_ADDRESS /\ update = TRUE

\* the condition of the early begin_sleep! (the fast path)
fast_path(addr, update) ==
    addr /= BROADCAST_ADDRESS /\ update = FALSE

\* begin_sleep! without its `if`: only the second sleep_deep call
begin_sleep_no_timer(rtcio_level, timer) ==
    <<[kind |-> "rtcio", level |-> rtcio_level]>>

\* begin_sleep!: the slice of wake sources given to rtc.sleep_deep
begin_sleep(rtcio_level, timer) ==
    IF timer
    THEN <<[kind |-> "rtcio", level |-> rtcio_level],
           [kind |-> "timer", secs |-> TIMER_SECS]>>
    ELSE <<[kind |-> "rtcio", level |-> rtcio_level]>>

\* server_known with the comparison the wrong way round
server_known_inverted(addr) ==
    addr = BROADCAST_ADDRESS

\* `if server_addr != BROADCAST_ADDRESS`: the branch between the peer
\* registration and the discovery
server_known(addr) ==
    addr /= BROADCAST_ADDRESS

\* match_response without `send_update = false`
match_response_keeps_update(resp, addr, update) ==
    IF resp /= <<>> /\ resp[1].dst_address = OwnMac
    THEN [addr |-> resp[1].src_address, update |-> update]
    ELSE [addr |-> addr, update |-> update]

\* match_response without the comparison of dst_address to the own address
match_response_any_dst(resp, addr, update) ==
    IF resp /= <<>>
    THEN [addr |-> resp[1].src_address, update |-> FALSE]
    ELSE [addr |-> addr, update |-> update]

\* the `match response` after the probe: the new SERVER_ADDR and send_update
match_response(resp, addr, update) ==
    IF resp /= <<>> /\ resp[1].dst_address = OwnMac
    THEN [addr |-> resp[1].src_address, update |-> FALSE]
    ELSE [addr |-> addr, update |-> update]

\* the datagram esp_now.send queues: destination, bytes, and the result of wait()
Datagram(dst, bytes, res) == [dst |-> dst, bytes |-> bytes, res |-> res]

\* esp_now_send that sends again when wait() reports a failure
esp_now_send_retry(s, dst, bytes, res) ==
    IF res = "Err"
    THEN Append(Append(s, Datagram(dst, bytes, res)), Datagram(dst, bytes, "Ok"))
    ELSE Append(s, Datagram(dst, bytes, res))

\* esp_now.send(&dst, &bytes).unwrap().wait() when send returns Ok: one
\* datagram on the air, whatever wait() reports
esp_now_send(s, dst, bytes, res) ==
    Append(s, Datagram(dst, bytes, res))

SendResults == {"Ok", "Err"}

\* the PeerInfo given to esp_now.add_peer (lmk: None, channel: None,
\* encrypt: false), with the dropped result of the call
PeerInfo(addr, ok) ==
    [peer_address |-> addr, lmk |-> "None", channel |-> "None", encrypt |-> FALSE,
     accepted |-> ok]

Probes(s) == {i \in 1..Len(s) : s[i].bytes = ProbeBytes}
Statuses(s) == {i \in 1..Len(s) : s[i].bytes[1] = 34}

Sat(n) == IF n > MaxRun THEN MaxRun ELSE n

\* `prev` in the first cycle after a cold boot: no cycle came before, and the
\* node was woken from no sleep plan
NoCycle == [cause |-> "none", level |-> "High", timer |-> FALSE,
            addr |-> BROADCAST_ADDRESS, quiet |-> TRUE, plan |-> <<>>]

----------------------------------------------------------------------------
(* The cycle *)

Init ==
    /\ WAKEUP_LEVEL \in WakeupLevel
    /\ SERVER_ADDR \in AnyAddr
    /\ TIMER_SLEEP \in BOOLEAN
    /\ wake_reason = "Undefined"
    /\ wakeup_pin_state = FALSE
    /\ send_update = FALSE
    /\ rtcio = "none"
    /\ server_addr = BROADCAST_ADDRESS
    /\ response = <<>>
    /\ peers = {}
    /\ pc = "start"
    /\ radio_inits = 0
    /\ sent = <<>>
    /\ sleep_sources = <<>>
    /\ entry = [level |-> WAKEUP_LEVEL, timer |-> TIMER_SLEEP, addr |-> SERVER_ADDR]
    /\ noReplyRun = 0
    /\ probesRun = 0
    /\ prev = NoCycle

\* lines 94-135: read the wake cause, sample the pin, classify, build rtcio
Classify ==
    /\ pc = "start"
    /\ \E pin \in BOOLEAN : wakeup_pin_state' = pin
    /\ LET r == match_wake_reason(WAKEUP_LEVEL, TIMER_SLEEP, SERVER_ADDR, wake_reason)
       IN  /\ WAKEUP_LEVEL' = r.level
           /\ TIMER_SLEEP' = r.timer
           /\ SERVER_ADDR' = r.addr
           /\ send_update' = r.update
           /\ rtcio' = r.level
    /\ pc' = "classified"
    /\ UNCHANGED <<wake_reason, server_addr, response, peers, radio_inits, sent,
                   sleep_sources, entry, noReplyRun, probesRun, prev>>

\* lines 139-141: the fast path, straight to deep sleep
FastSleep ==
    /\ pc = "classified"
    /\ fast_path(SERVER_ADDR, send_update)
    /\ sleep_sources' = begin_sleep(rtcio, TIMER_SLEEP)
    /\ pc' = "sleeping"
    /\ UNCHANGED <<retained, wake_reason, wakeup_pin_state, send_update, rtcio,
                   server_addr, response, peers, radio_inits, sent, entry,
                   noReplyRun, probesRun, prev>>

\* lines 144-162: initialize(..).unwrap(), EspNow::new(..).unwrap(),
\* set_channel(1).unwrap(), then the snapshot of SERVER_ADDR.  Any of the
\* three may fail, and unwrap then panics.
RadioInit ==
    /\ pc = "classified"
    /\ ~fast_path(SERVER_ADDR, send_update)
    /\ radio_inits' = radio_inits + 1
    /\ \E ok \in BOOLEAN :
         IF ok
         THEN /\ server_addr' = SERVER_ADDR
              /\ pc' = "radio"
         ELSE /\ server_addr' = server_addr
              /\ pc' = "panicked"
    /\ UNCHANGED <<retained, wake_reason, wakeup_pin_state, send_update, rtcio,
                   response, peers, sent, sleep_sources, entry, noReplyRun, probesRun, prev>>

\* lines 163-169: a known coordinator is registered as a peer; the result
\* of add_peer is dropped
AddPeer ==
    /\ pc = "radio"
    /\ server_known(server_addr)
    /\ \E ok \in BOOLEAN :
         peers' = peers \cup {PeerInfo(server_addr, ok)}
    /\ pc' = "report"
    /\ UNCHANGED <<retained, wake_reason, wakeup_pin_state, send_update, rtcio,
                   server_addr, response, radio_inits, sent, sleep_sources, entry,
                   noReplyRun, probesRun, prev>>

\* lines 170-173: the probe; send(..).unwrap() panics when send returns Err,
\* the result of wait() is only printed
ProbeSend ==
    /\ pc = "radio"
    /\ ~server_known(server_addr)
    /\ \/ \E res \in SendResults :
            /\ sent' = esp_now_send(sent, server_addr, ProbeBytes, res)
            /\ pc' = "receive"
       \/ /\ sent' = sent
          /\ pc' = "panicked"
    /\ UNCHANGED <<retained, wake_reason, wakeup_pin_state, send_update, rtcio,
                   server_addr, response, peers, radio_inits, sleep_sources, entry,
                   noReplyRun, probesRun, prev>>

\* lines 175-190: wait 1000 ms, receive at most one datagram, match on it
Receive ==
    /\ pc = "receive"
    /\ \E resp \in {<<>>} \cup {<<d>> : d \in ReceivedData} :
         /\ response' = resp
         /\ LET m == match_response(resp, SERVER_ADDR, send_update)
            IN  /\ SERVER_ADDR' = m.addr
                /\ send_update' = m.update
         /\ IF resp = <<>>
            THEN /\ noReplyRun' = Sat(noReplyRun + 1)
                 /\ probesRun' = Sat(probesRun + Cardinality(Probes(sent)))
            ELSE /\ noReplyRun' = 0
                 /\ probesRun' = 0
    /\ pc' = "report"
    /\ UNCHANGED <<WAKEUP_LEVEL, TIMER_SLEEP, wake_reason, wakeup_pin_state, rtcio,
                   server_addr, peers, radio_inits, sent, sleep_sources, entry, prev>>

\* lines 192-196: the status report, to the snapshot server_addr
StatusSend ==
    /\ pc = "report"
    /\ send_update
    /\ \/ \E res \in SendResults :
            /\ sent' = esp_now_send(sent, server_addr, StatusBytes(wakeup_pin_state), res)
            /\ pc' = "final"
       \/ /\ sent' = sent
          /\ pc' = "panicked"
    /\ UNCHANGED <<retained, wake_reason, wakeup_pin_state, send_update, rtcio,
                   server_addr, response, peers, radio_inits, sleep_sources, entry,
                   noReplyRun, probesRun, prev>>

\* line 198: the sleep at the end of the radio path
FinalSleep ==
    /\ \/ pc = "final"
       \/ pc = "report" /\ ~send_update
    /\ sleep_sources' = begin_sleep(rtcio, TIMER_SLEEP)
    /\ pc' = "sleeping"
    /\ UNCHANGED <<retained, wake_reason, wakeup_pin_state, send_update, rtcio,
                   server_addr, response, peers, radio_inits, sent, entry,
                   noReplyRun, probesRun, prev>>

\* deep sleep ends: the program starts again at the entry point; the statics
\* are what the last cycle left, every local is fresh
Wake ==
    /\ pc = "sleeping"
    /\ \E cause \in SleepSource : wake_reason' = cause
    /\ wakeup_pin_state' = FALSE
    /\ send_update' = FALSE
    /\ rtcio' = "none"
    /\ server_addr' = BROADCAST_ADDRESS
    /\ response' = <<>>
    /\ peers' = {}
    /\ radio_inits' = 0
    /\ sent' = <<>>
    /\ sleep_sources' = <<>>
    /\ entry' = [level |-> WAKEUP_LEVEL, timer |-> TIMER_SLEEP, addr |-> SERVER_ADDR]
    /\ prev' = [cause |-> wake_reason, level |-> entry.level, timer |-> entry.timer,
                addr |-> entry.addr, quiet |-> (radio_inits = 0 /\ sent = <<>>),
                plan |-> sleep_sources]
    /\ pc' = "start"
    /\ UNCHANGED <<retained, noReplyRun, probesRun>>

Next ==
    \/ Classify
    \/ FastSleep
    \/ RadioInit
    \/ AddPeer
    \/ ProbeSend
    \/ Receive
    \/ StatusSend
    \/ FinalSleep
    \/ Wake

Spec == Init /\ [][Next]_vars

----------------------------------------------------------------------------
(* Properties *)

\* what the last sleep_deep call was given
HasLevelSource(level) ==
    \E i \in 1..Len(sleep_sources) :
        sleep_sources[i] = [kind |-> "rtcio", level |-> level]
HasTimerSource ==
    \E i \in 1..Len(sleep_sources) :
        sleep_sources[i] = [kind |-> "timer", secs |-> TIMER_SECS]

\* the receive window of this cycle has run (only Receive leads to these
\* positions with the broadcast address in the snapshot)
DiscoveryRan ==
    /\ pc \in {"report", "final", "sleeping"}
    /\ radio_inits > 0
    /\ server_addr = BROADCAST_ADDRESS

\* C1 (table completeness): right after the classification step, the statics
\* and send_update are what the row of the WakeClassifier table for the
\* statics at cycle entry and the wake cause states: the seven rows, one
\* conjunct each; a PowerOn cause also leaves SERVER_ADDR at the broadcast
\* (Unknown) address.
C1_TableCompleteness ==
    pc = "classified" =>
      /\ (entry.level = "High" /\ ~entry.timer /\ wake_reason = "Timer")
            => (WAKEUP_LEVEL = "High" /\ ~TIMER_SLEEP /\ send_update)
      /\ (entry.level = "Low" /\ wake_reason = "Timer")
            => (WAKEUP_LEVEL = "Low" /\ TIMER_SLEEP = entry.timer /\ ~send_update)
      /\ (entry.level = "High" /\ ~entry.timer /\ wake_reason = "Gpio")
            => (WAKEUP_LEVEL = "Low" /\ ~TIMER_SLEEP /\ send_update)
      /\ (entry.level = "High" /\ entry.timer /\ wake_reason = "Gpio")
            => (WAKEUP_LEVEL = "Low" /\ ~TIMER_SLEEP /\ ~send_update)
      /\ (entry.level = "Low" /\ ~entry.timer /\ wake_reason = "Gpio")
            => (WAKEUP_LEVEL = "High" /\ TIMER_SLEEP /\ ~send_update)
      /\ wake_reason = "Undefined"
            => (WAKEUP_LEVEL = entry.level /\ TIMER_SLEEP = entry.timer
                /\ SERVER_ADDR = BROADCAST_ADDRESS /\ ~send_update)
      /\ wake_reason = "Other"
            => (WAKEUP_LEVEL = entry.level /\ TIMER_SLEEP = entry.timer
                /\ SERVER_ADDR = entry.addr /\ ~send_update)

\* a level wake at (Low, unarmed) has been classified: (High, armed), no update
C1_Witness ==
    /\ pc = "classified"
    /\ entry.level = "Low" /\ ~entry.timer /\ wake_reason = "Gpio"
    /\ WAKEUP_LEVEL = "High" /\ TIMER_SLEEP /\ ~send_update

\* C2 (no double-arm): once a classification has completed, the statics never
\* hold TIMER_SLEEP = true together with WAKEUP_LEVEL = Low.
C2_NoDoubleArm ==
    pc /= "start" => ~(TIMER_SLEEP /\ WAKEUP_LEVEL = "Low")

\* C3 (fast-path exclusivity): from a classified cycle with a known
\* coordinator and no update pending, the only step is the one into deep
\* sleep, with the radio never initialised and nothing sent or received.
C3_FastPathExclusive ==
    [][(pc = "classified" /\ SERVER_ADDR /= BROADCAST_ADDRESS /\ ~send_update)
          => (/\ pc' = "sleeping"
              /\ sleep_sources' /= <<>>
              /\ radio_inits' = 0
              /\ sent' = <<>>
              /\ response' = <<>>)]_vars

\* a cycle asleep by the fast path: coordinator known, no update, no radio
C3_Witness ==
    /\ pc = "sleeping"
    /\ SERVER_ADDR /= BROADCAST_ADDRESS
    /\ wake_reason /= "Undefined"
    /\ ~send_update
    /\ radio_inits = 0
    /\ sent = <<>>

\* C4 (status only to a known coordinator): every Status datagram (tag 0x22)
\* sent in a cycle goes to the coordinator address, which is then not the
\* broadcast (Unknown) address.
C4_StatusOnlyToCoordinator ==
    \A i \in Statuses(sent) :
        /\ SERVER_ADDR /= BROADCAST_ADDRESS
        /\ sent[i].dst = SERVER_ADDR
        /\ sent[i].dst /= BROADCAST_ADDRESS

\* C5 (every path sleeps): a cycle is never at a position other than deep
\* sleep from which it has no step to take.
C5_EveryCycleSleeps ==
    pc = "sleeping" \/ ENABLED Next

\* C6 (discovery monotonicity): a concrete SERVER_ADDR is changed by no step
\* other than the classification of a PowerOn (Undefined) wake.
C6_CoordinatorKept ==
    [][(SERVER_ADDR /= BROADCAST_ADDRESS
        /\ ~(pc = "start" /\ wake_reason = "Undefined"))
          => SERVER_ADDR' = SERVER_ADDR]_vars

\* a radio-path cycle, not a PowerOn one, that began with a discovered
\* coordinator and sleeps with the same one
C6_Witness ==
    /\ pc = "sleeping"
    /\ wake_reason /= "Undefined"
    /\ entry.addr \in PeerAddrs
    /\ SERVER_ADDR = entry.addr
    /\ radio_inits = 1
    /\ Statuses(sent) /= {}

\* C7 (idempotent re-probe): a cycle whose receive window ended without a
\* datagram leaves SERVER_ADDR at the broadcast (Unknown) address and has sent
\* exactly one Probe, to the broadcast address; over a run of such cycles the
\* Probes sent number the cycles.
C7_ReprobeOncePerCycle ==
    /\ (DiscoveryRan /\ response = <<>>) =>
          /\ SERVER_ADDR = BROADCAST_ADDRESS
          /\ Cardinality(Probes(sent)) = 1
          /\ \A i \in Probes(sent) : sent[i].dst = BROADCAST_ADDRESS
    /\ probesRun = noReplyRun

\* the second (or later) consecutive cycle whose discovery timed out, asleep
C7_Witness ==
    /\ pc = "sleeping"
    /\ DiscoveryRan /\ response = <<>>
    /\ noReplyRun >= 2
    /\ SERVER_ADDR = BROADCAST_ADDRESS

\* C8 (adoption): once the receive window has returned a datagram addressed
\* to this node, SERVER_ADDR is the datagram's source, send_update is false
\* and the cycle sends no Status datagram.
C8_AdoptionClearsUpdate ==
    (response /= <<>> /\ response[1].dst_address = OwnMac) =>
        /\ SERVER_ADDR = response[1].src_address
        /\ ~send_update
        /\ Statuses(sent) = {}
        /\ pc /= "panicked"

\* a cycle whose classification set send_update (level wake at High, unarmed)
\* and whose discovery then adopted a coordinator, asleep
C8_Witness ==
    /\ pc = "sleeping"
    /\ wake_reason = "Gpio" /\ entry.level = "High" /\ ~entry.timer
    /\ response /= <<>> /\ response[1].dst_address = OwnMac
    /\ SERVER_ADDR = response[1].src_address

\* C9 (discovery frame): the receive step that returns no datagram, or one
\* not addressed to this node, changes none of SERVER_ADDR, WAKEUP_LEVEL,
\* TIMER_SLEEP, send_update.
C9_ForeignOrNoneUnchanged ==
    [][(pc = "receive" /\ pc' = "report"
        /\ (response' = <<>> \/ response'[1].dst_address /= OwnMac))
          => UNCHANGED <<SERVER_ADDR, WAKEUP_LEVEL, TIMER_SLEEP, send_update>>]_vars

\* a datagram for another destination was received with an update pending:
\* the update is still pending and the coordinator still unknown
C9_Witness ==
    /\ pc = "report"
    /\ response /= <<>> /\ response[1].dst_address /= OwnMac
    /\ send_update
    /\ SERVER_ADDR = BROADCAST_ADDRESS

\* C10 (sleep plan): at every sleep entry the sources given to sleep_deep are
\* a level source at WAKEUP_LEVEL, which is the level the classification of
\* this cycle left, and the 5 s timer source exactly when TIMER_SLEEP holds;
\* nothing else.
C10_SleepPlan ==
    pc = "sleeping" =>
        /\ HasLevelSource(WAKEUP_LEVEL)
        /\ WAKEUP_LEVEL = (IF wake_reason = "Gpio"
                           THEN (IF entry.level = "High" THEN "Low" ELSE "High")
                           ELSE entry.level)
        /\ HasTimerSource <=> TIMER_SLEEP
        /\ Len(sleep_sources) = (IF TIMER_SLEEP THEN 2 ELSE 1)
        /\ \A l \in WakeupLevel : HasLevelSource(l) => l = WAKEUP_LEVEL

\* a radio-path cycle asleep with the timer armed
C10_Witness ==
    /\ pc = "sleeping"
    /\ radio_inits = 1
    /\ TIMER_SLEEP
    /\ HasTimerSource
    /\ HasLevelSource("High")

\* C11 (initialisation failure): the step that initialises the radio
\* transport, when the initialisation fails, sends nothing, leaves the three
\* statics as the classification left them and enters deep sleep with the
\* wake sources planned for this cycle.
C11_InitFailureSleeps ==
    [][(pc = "classified" /\ radio_inits' = radio_inits + 1 /\ pc' /= "radio")
          => (/\ sent' = <<>>
              /\ UNCHANGED retained
              /\ pc' = "sleeping"
              /\ sleep_sources' = begin_sleep(rtcio, TIMER_SLEEP))]_vars

\* C12 (send failure): the step that sends the Probe always leads to the
\* receive window and the step that sends the Status always leads to the
\* final sleep entry, whether the send succeeds or fails; and a cycle never
\* holds more than one Probe or more than one Status.
C12_SendFailureNotFatal ==
    [][/\ (pc = "radio" /\ server_addr = BROADCAST_ADDRESS) => pc' = "receive"
       /\ (pc = "report" /\ send_update) => pc' = "final"
       /\ pc = "final" => pc' = "sleeping"
       /\ Cardinality(Probes(sent')) <= 1
       /\ Cardinality(Statuses(sent')) <= 1]_vars

\* C13 (scenario A, power on): a cycle woken by PowerOn (Undefined) leaves
\* classification with SERVER_ADDR at the broadcast (Unknown) address and
\* WAKEUP_LEVEL, TIMER_SLEEP unchanged; it reaches its sleep entry only by
\* the radio path, with the transport initialised and one Probe broadcast;
\* and when the receive window returned nothing, the sources it sleeps with
\* are the level source at the unchanged WAKEUP_LEVEL and no timer source.
C13_PowerOnScenario ==
    wake_reason = "Undefined" =>
        /\ pc = "classified" =>
              /\ SERVER_ADDR = BROADCAST_ADDRESS
              /\ WAKEUP_LEVEL = entry.level
              /\ TIMER_SLEEP = entry.timer
        /\ pc = "sleeping" =>
              /\ radio_inits = 1
              /\ Cardinality(Probes(sent)) = 1
              /\ \A i \in Probes(sent) : sent[i].dst = BROADCAST_ADDRESS
        /\ (pc = "sleeping" /\ response = <<>>) =>
              /\ HasLevelSource(entry.level)
              /\ ~HasTimerSource

\* a cycle is over when it has entered deep sleep or has halted in a panic
CycleOver == pc \in {"sleeping", "panicked"}

\* this cycle is scenario C: coordinator known, statics (Low, unarmed) at
\* entry, woken by the level source
ScenarioC == /\ entry.addr /= BROADCAST_ADDRESS
             /\ entry.level = "Low" /\ ~entry.timer
             /\ wake_reason = "Gpio"

\* the cycle before this one was scenario C
AfterScenarioC == /\ prev.addr /= BROADCAST_ADDRESS
                  /\ prev.level = "Low" /\ ~prev.timer
                  /\ prev.cause = "Gpio"

\* C14 (scenarios C and D): with the coordinator known, a level wake at
\* (Low, unarmed) leaves (High, armed), initialises no radio, sends nothing
\* and sleeps with the level source at High plus the 5 s timer; a timer wake
\* in the next cycle leaves (High, unarmed) with send_update set, and that
\* cycle sends exactly one Status datagram, to the coordinator.
C14_ArmThenReport ==
    /\ ScenarioC =>
          /\ pc = "classified" => (WAKEUP_LEVEL = "High" /\ TIMER_SLEEP /\ ~send_update)
          /\ pc \notin {"start", "classified"} =>
                /\ pc = "sleeping"
                /\ radio_inits = 0 /\ sent = <<>>
                /\ HasLevelSource("High") /\ HasTimerSource
    /\ (AfterScenarioC /\ wake_reason = "Timer") =>
          /\ pc = "classified" => (WAKEUP_LEVEL = "High" /\ ~TIMER_SLEEP /\ send_update)
          /\ CycleOver =>
                /\ Cardinality(Statuses(sent)) = 1
                /\ \A i \in Statuses(sent) : sent[i].dst = entry.addr
                /\ SERVER_ADDR = entry.addr

\* C15 (scenario E, bounce): with the coordinator known, the cycle after a
\* level wake at (Low, unarmed) has armed the timer, when woken by the level
\* source again, leaves (Low, unarmed) with send_update false, never
\* initialises the radio, sends and receives nothing, and sleeps with the
\* level source at Low and no timer source.
C15_BounceCancelled ==
    (AfterScenarioC /\ wake_reason = "Gpio") =>
        /\ entry.level = "High" /\ entry.timer /\ entry.addr = prev.addr
        /\ radio_inits = 0 /\ sent = <<>> /\ response = <<>> /\ peers = {}
        /\ pc \in {"start", "classified", "sleeping"}
        /\ pc /= "start" =>
              (WAKEUP_LEVEL = "Low" /\ ~TIMER_SLEEP /\ ~send_update
               /\ SERVER_ADDR = entry.addr)
        /\ pc = "sleeping" =>
              /\ sleep_sources = <<[kind |-> "rtcio", level |-> "Low"]>>
              /\ ~HasTimerSource

\* the bounce cycle asleep, after a cycle that slept on the fast path with
\* the timer in its plan
C15_Witness ==
    /\ AfterScenarioC /\ wake_reason = "Gpio"
    /\ prev.quiet
    /\ \E i \in 1..Len(prev.plan) : prev.plan[i].kind = "timer"
    /\ pc = "sleeping"
    /\ WAKEUP_LEVEL = "Low" /\ ~TIMER_SLEEP
    /\ radio_inits = 0

\* this cycle was classified with the coordinator known and send_update set
\* (send_update is only ever cleared after the classification)
KnownAndUpdate ==
    /\ pc /= "start"
    /\ wake_reason /= "Undefined"
    /\ entry.addr /= BROADCAST_ADDRESS
    /\ send_update

\* C16 (scenario B, report): a cycle classified with the coordinator known
\* and send_update set does not take the fast path, sends no Probe, and
\* sends exactly one Status datagram, to the coordinator, whose bytes are
\* 0x22 and the pin level (0 or 1) sampled at the start of the cycle.
C16_StatusReport ==
    KnownAndUpdate =>
        /\ pc \notin {"start", "classified"} => radio_inits = 1
        /\ Probes(sent) = {}
        /\ CycleOver =>
              /\ Cardinality(Statuses(sent)) = 1
              /\ \A i \in Statuses(sent) :
                    /\ sent[i].dst = SERVER_ADDR
                    /\ sent[i].dst = entry.addr
                    /\ sent[i].bytes = <<34, IF wakeup_pin_state THEN 1 ELSE 0>>

\* C17 (level alternation): once a cycle is classified, WAKEUP_LEVEL is the
\* opposite of its value at cycle entry when the cause is LevelWake (Gpio),
\* and its value at cycle entry for every other cause; and the level a cycle
\* starts with is the one the cycle before it left by the same rule.
C17_LevelAlternates ==
    /\ pc /= "start" =>
          WAKEUP_LEVEL = (IF wake_reason = "Gpio"
                          THEN (IF entry.level = "High" THEN "Low" ELSE "High")
                          ELSE entry.level)
    /\ prev.cause /= "none" =>
          entry.level = (IF prev.cause = "Gpio"
                         THEN (IF prev.level = "High" THEN "Low" ELSE "High")
                         ELSE prev.level)

\* two level wakes in a row: High -> Low in the cycle before, Low -> High now
C17_Witness ==
    /\ pc = "classified"
    /\ prev.cause = "Gpio" /\ prev.level = "High"
    /\ wake_reason = "Gpio" /\ entry.level = "Low"
    /\ WAKEUP_LEVEL = "High"

----------------------------------------------------------------------------
(* The cycle when the statics start at their declared values and the timer *)
(* wakes the node only from a sleep whose sources held the timer           *)

\* cold boot with the statics at the values of their declarations,
\* WAKEUP_LEVEL = High and TIMER_SLEEP = false
InitPlanned ==
    /\ Init
    /\ WAKEUP_LEVEL = "High"
    /\ TIMER_SLEEP = FALSE

\* deep sleep ends; a Timer cause needs the timer source among the sources
\* the sleep was entered with
WakePlanned ==
    /\ Wake
    /\ wake_reason' = "Timer" => HasTimerSource

NextPlanned ==
    \/ Classify
    \/ FastSleep
    \/ RadioInit
    \/ AddPeer
    \/ ProbeSend
    \/ Receive
    \/ StatusSend
    \/ FinalSleep
    \/ WakePlanned

PlannedSpec == InitPlanned /\ [][NextPlanned]_vars

\* C19 (timer wakes are armed wakes): starting from (High, unarmed), with
\* TimerExpiry only after a sleep whose sources held the timer, every cycle
\* woken by TimerExpiry starts at (High, armed), leaves the classification
\* at (High, unarmed) with send_update set; the statics are never (Low, armed).
C19_TimerWakeIsArmed ==
    /\ wake_reason = "Timer" =>
          /\ entry.level = "High" /\ entry.timer
          /\ pc /= "start" => (WAKEUP_LEVEL = "High" /\ ~TIMER_SLEEP)
          /\ pc = "classified" => send_update
    /\ ~(WAKEUP_LEVEL = "Low" /\ TIMER_SLEEP)

\* a timer wake classified: it found (High, armed) and left (High, unarmed)
\* with the update pending
C19_Witness ==
    /\ pc = "classified"
    /\ wake_reason = "Timer"
    /\ entry.level = "High" /\ entry.timer
    /\ ~TIMER_SLEEP /\ send_update

\* the sleep the node was woken from had the timer among its sources
WokenFromTimerPlan ==
    \E i \in 1..Len(prev.plan) : prev.plan[i].kind = "timer"

\* the wake cause of this cycle is one of the sources of that sleep
WakeWasPlanned ==
    \/ wake_reason = "Gpio"
    \/ wake_reason = "Timer" /\ WokenFromTimerPlan

\* C20 (the timer is disarmed by the next wake): a classified cycle that
\* started with TIMER_SLEEP = true has TIMER_SLEEP = false when woken by
\* TimerExpiry or LevelWake, and TIMER_SLEEP unchanged when woken by PowerOn
\* or Other; and a cycle woken by a source of the sleep before it, when that
\* sleep had the timer source, sleeps without the timer source.
C20_TimerNotTwice ==
    /\ (pc /= "start" /\ entry.timer /\ wake_reason \in {"Timer", "Gpio"})
          => ~TIMER_SLEEP
    /\ (pc /= "start" /\ wake_reason \in {"Undefined", "Other"})
          => TIMER_SLEEP = entry.timer
    /\ (pc = "sleeping" /\ WakeWasPlanned /\ WokenFromTimerPlan)
          => ~HasTimerSource

====
